---- MODULE Spec2Model ----
(***************************************************************************)
(* Model of batch_fbx_export.py: the operator EXPORT_OT_batch_fbx_unity    *)
(* (invoke, the dialog's toggles, execute), the two select-all / none      *)
(* helper operators, and the pure helpers _get_descendants and             *)
(* _safe_filename.                                                         *)
(*                                                                         *)
(* Object names and file names are sequences of code points, so that       *)
(* sorting by name and character classes are computed, not assumed.        *)
(* Vertex coordinates are exact rationals [n |-> numerator, d |-> denom]:  *)
(* the division by len(me.vertices) is a real division, not an integer     *)
(* one (floating-point rounding is not modelled).                          *)
(*                                                                         *)
(* Host operators (bpy.ops.object.*, export_scene.fbx) act on the current  *)
(* selection, as the host documents them; the model gives each the effect  *)
(* the source relies on at its call site.                                  *)
(***************************************************************************)
EXTENDS Integers, Sequences, FiniteSets, TLC

VARIABLES
    objects,          \* bpy.data.objects: id -> object record
    active,           \* context.view_layer.objects.active (None = no object)
    mesh_entries,     \* self.mesh_entries: sequence of [obj_name, export]
    export_children,  \* self.export_children
    center_z,         \* self.center_z
    dirExists,        \* os.path.isdir(os.path.dirname(self.filepath))
    pc,               \* position of the operator
    queue,            \* the part of mesh_objects the for loop has not reached
    cur,              \* the loop variable obj of execute
    dupes,            \* dupes
    dupe_root,        \* dupe_root
    orig_selected,    \* orig_selected
    orig_active,      \* orig_active
    exported,         \* exported
    result,           \* the operator's return value
    report,           \* the level of the last self.report
    written,          \* file paths the host exporter wrote during this run
    exportLog,        \* one record per host export call of this run
    pre,              \* the scene as it was when execute started
    name,             \* argument of _safe_filename (name specification)
    safe,             \* its result
    npc               \* position of the name specification

vars == <<objects, active, mesh_entries, export_children, center_z, dirExists,
          pc, queue, cur, dupes, dupe_root, orig_selected, orig_active,
          exported, result, report, written, exportLog, pre, name, safe, npc>>

opVars == <<objects, active, mesh_entries, export_children, center_z, dirExists,
            pc, queue, cur, dupes, dupe_root, orig_selected, orig_active,
            exported, result, report, written, exportLog, pre>>

nameVars == <<name, safe, npc>>

None == 0

\* Longest object name the name specification enumerates.
MaxLen == 3

-----------------------------------------------------------------------------
(* Exact rational arithmetic for vertex coordinates.                        *)

Abs(i) == IF i < 0 THEN -i ELSE i

RECURSIVE GCD(_, _)
GCD(a, b) == IF b = 0 THEN a ELSE GCD(b, a % b)

Rat(n, d) ==
    LET g == GCD(Abs(n), d)
    IN  [n |-> n \div g, d |-> d \div g]

RatInt(i) == [n |-> i, d |-> 1]

RatAdd(a, b) == Rat(a.n * b.d + b.n * a.d, a.d * b.d)

RatSub(a, b) == Rat(a.n * b.d - b.n * a.d, a.d * b.d)

RatDivInt(a, k) == Rat(a.n, a.d * k)

\* sum(v.co.<axis> for v in me.vertices)
RECURSIVE SumAxis(_, _)
SumAxis(verts, axis) ==
    IF verts = << >> THEN RatInt(0)
    ELSE RatAdd(Head(verts)[axis], SumAxis(Tail(verts), axis))

-----------------------------------------------------------------------------
(* Names: sequences of code points.                                         *)

Space == 32
Hyphen == 45
Period == 46
Underscore == 95

IsAlnum(c) == (c \in 48..57) \/ (c \in 65..90) \/ (c \in 97..122)

\* mutant: the period is not among the characters kept
SafeCharNoPeriod(c) ==
    IF IsAlnum(c) \/ c \in {Space, Hyphen, Underscore} THEN c ELSE Underscore

SafeChar(c) ==
    IF IsAlnum(c) \/ c \in {Space, Hyphen, Underscore, Period} THEN c ELSE Underscore

SafeFilename(s) == [i \in 1..Len(s) |-> SafeChar(s[i])]

\* ".fbx"
FbxExt == <<46, 102, 98, 120>>

\* ".001", the suffix the host gives a duplicate's name
DupSuffix == <<46, 48, 48, 49>>

\* Python's order on str: by code point, a proper prefix first
RECURSIVE LexLess(_, _)
LexLess(a, b) ==
    IF b = << >> THEN FALSE
    ELSE IF a = << >> THEN TRUE
    ELSE IF Head(a) # Head(b) THEN Head(a) < Head(b)
    ELSE LexLess(Tail(a), Tail(b))

-----------------------------------------------------------------------------
(* The scene.                                                               *)

V(x, y, z) == [x |-> RatInt(x), y |-> RatInt(y), z |-> RatInt(z)]

Obj(nm, ty, par, loc, verts) ==
    [name |-> nm, type |-> ty, parent |-> par, loc |-> loc, rot |-> 0, scale |-> 1,
     verts |-> verts, visible |-> TRUE, select |-> FALSE]

\* 1 "a/b"  mesh, 3 vertices          2 "a*b"  mesh, child of 1, 2 vertices
\* 3 "e"    empty, child of 2         4 "c"    mesh without vertices
Scene ==
    <<Obj(<<97, 47, 98>>, "MESH", None, [x |-> 1, y |-> 2, z |-> 3],
          <<V(0, 0, 0), V(1, 0, 2), V(0, 1, 0)>>),
      Obj(<<97, 42, 98>>, "MESH", 1, [x |-> 2, y |-> 0, z |-> 1],
          <<V(1, 1, 1), V(2, 4, 2)>>),
      Obj(<<101>>, "EMPTY", 2, [x |-> 0, y |-> 1, z |-> 0], << >>),
      Obj(<<99>>, "MESH", None, [x |-> 3, y |-> 3, z |-> 0], << >>)>>

SceneIds == 1..Len(Scene)

\* The selections the scene starts with: [sel, act]
InitialSelections ==
    {[sel |-> {}, act |-> None],
     [sel |-> {2, 4}, act |-> 2],
     [sel |-> {1, 3}, act |-> 4]}

SceneWith(s) == [i \in SceneIds |-> [Scene[i] EXCEPT !.select = (i \in s.sel)]]

\* The id of the duplicate the host makes of object i
DupId(i) == i + Len(Scene)

Selected(objs) == {i \in DOMAIN objs : objs[i].select}

-----------------------------------------------------------------------------
(* Host operations, each acting on the current selection.                   *)

\* bpy.ops.object.select_all(action='DESELECT')
DeselectAll(objs) == [i \in DOMAIN objs |-> [objs[i] EXCEPT !.select = FALSE]]

\* for o in S: o.select_set(True)
SelectSet(objs, S) ==
    [i \in DOMAIN objs |-> IF i \in S THEN [objs[i] EXCEPT !.select = TRUE] ELSE objs[i]]

\* select_all(DESELECT) followed by select_set(True) on each member of S
SelectOnly(objs, S) == SelectSet(DeselectAll(objs), S)

\* bpy.ops.object.duplicate(): every selected object gets a copy with its own
\* mesh data; the copies become the selection, and a copy whose parent was
\* copied too is parented to that copy
HostDuplicate(objs) ==
    LET sel == Selected(objs)
        new == {DupId(i) : i \in sel}
        src(j) == CHOOSE i \in sel : DupId(i) = j
    IN  [j \in DOMAIN objs \cup new |->
            IF j \in new
            THEN [objs[src(j)] EXCEPT
                    !.name = objs[src(j)].name \o DupSuffix,
                    !.parent = IF objs[src(j)].parent \in sel
                               THEN DupId(objs[src(j)].parent)
                               ELSE objs[src(j)].parent,
                    !.select = TRUE]
            ELSE [objs[j] EXCEPT !.select = FALSE]]

\* the active object after duplicate: the copy of the active object
HostDuplicateActive(objs, act) ==
    IF act \in Selected(objs) THEN DupId(act) ELSE act

\* bpy.ops.object.transform_apply(location=True, rotation=False, scale=False):
\* the location of every selected object is folded into its vertices and reset;
\* rotation and scale stay on the object (the scene's objects are unrotated and
\* unscaled, so the folded offset is the location itself)
HostTransformApply(objs) ==
    [i \in DOMAIN objs |->
        IF ~objs[i].select THEN objs[i]
        ELSE [objs[i] EXCEPT
                !.verts = [k \in 1..Len(objs[i].verts) |->
                             [x |-> RatAdd(objs[i].verts[k].x, RatInt(objs[i].loc.x)),
                              y |-> RatAdd(objs[i].verts[k].y, RatInt(objs[i].loc.y)),
                              z |-> RatAdd(objs[i].verts[k].z, RatInt(objs[i].loc.z))]],
                !.loc = [x |-> 0, y |-> 0, z |-> 0]]]

\* bpy.ops.object.delete(): the selected objects leave the scene; an object
\* whose parent left has no parent
HostDelete(objs) ==
    LET gone == Selected(objs)
    IN  [i \in DOMAIN objs \ gone |->
            IF objs[i].parent \in gone THEN [objs[i] EXCEPT !.parent = None] ELSE objs[i]]

HostDeleteActive(objs, act) == IF act \in Selected(objs) THEN None ELSE act

\* bpy.ops.export_scene.fbx(filepath=..., use_selection=True, ...): what one
\* call hands to the exporter
ExportCall(objs, filepath) == [filepath |-> filepath, objs |-> Selected(objs)]

-----------------------------------------------------------------------------
(* Helpers of the operator.                                                 *)

\* obj.children
Children(objs, o) == {i \in DOMAIN objs : objs[i].parent = o}

\* mutant: only the direct children are collected
DescendantsDirect(objs, o) == Children(objs, o)

\* _get_descendants(obj)
RECURSIVE Descendants(_, _)
Descendants(objs, o) ==
    Children(objs, o) \cup UNION {Descendants(objs, c) : c \in Children(objs, o)}

\* sorted(S, key=lambda o: o.name), as a sequence of ids
RECURSIVE SortedByName(_, _)
SortedByName(objs, S) ==
    IF S = {} THEN << >>
    ELSE LET m == CHOOSE i \in S : \A j \in S \ {i} : LexLess(objs[i].name, objs[j].name)
         IN  <<m>> \o SortedByName(objs, S \ {m})

\* obj.type == 'MESH' and obj.visible_get()
IsVisibleMesh(o) == o.type = "MESH" /\ o.visible

\* mutant: hidden meshes are listed too
FreshEntriesHidden(objs) ==
    LET ids == SortedByName(objs, {i \in DOMAIN objs : objs[i].type = "MESH"})
    IN  [k \in 1..Len(ids) |-> [obj_name |-> objs[ids[k]].name, export |-> TRUE]]

\* the entries invoke builds
FreshEntries(objs) ==
    LET ids == SortedByName(objs, {i \in DOMAIN objs : IsVisibleMesh(objs[i])})
    IN  [k \in 1..Len(ids) |-> [obj_name |-> objs[ids[k]].name, export |-> TRUE]]

\* names_to_export
NamesToExport(entries) ==
    {entries[k].obj_name : k \in {j \in 1..Len(entries) : entries[j].export}}

\* mutant: the visibility test is missing
MeshObjectsHidden(objs, entries) ==
    SortedByName(objs, {i \in DOMAIN objs :
                          /\ objs[i].type = "MESH"
                          /\ objs[i].name \in NamesToExport(entries)})

\* mesh_objects, in the order of bpy.data.objects (the host keeps it by name)
MeshObjects(objs, entries) ==
    SortedByName(objs, {i \in DOMAIN objs :
                          /\ IsVisibleMesh(objs[i])
                          /\ objs[i].name \in NamesToExport(entries)})

\* objects_to_export
ObjectsToExport(objs, o, children) ==
    {o} \cup (IF children THEN Descendants(objs, o) ELSE {})

\* mutant: the loop walks the objects that were duplicated, not their duplicates
CenterTargetsSources(ds) == {i \in SceneIds : DupId(i) \in ds}

\* the objects the centering loop walks: for d in dupes
CenterTargets(ds) == ds

\* mutant: cy is computed from the x coordinates
CenterMeshTypo(verts, cz) ==
    LET n == Len(verts)
        cx == RatDivInt(SumAxis(verts, "x"), n)
        cy == RatDivInt(SumAxis(verts, "x"), n)
        czv == RatDivInt(SumAxis(verts, "z"), n)
    IN  [k \in 1..n |->
            [x |-> RatSub(verts[k].x, cx),
             y |-> RatSub(verts[k].y, cy),
             z |-> IF cz THEN RatSub(verts[k].z, czv) ELSE verts[k].z]]

\* the body of the centering loop for one mesh with vertices
CenterMesh(verts, cz) ==
    LET n == Len(verts)
        cx == RatDivInt(SumAxis(verts, "x"), n)
        cy == RatDivInt(SumAxis(verts, "y"), n)
        czv == RatDivInt(SumAxis(verts, "z"), n)
    IN  [k \in 1..n |->
            [x |-> RatSub(verts[k].x, cx),
             y |-> RatSub(verts[k].y, cy),
             z |-> IF cz THEN RatSub(verts[k].z, czv) ELSE verts[k].z]]

\* the centering loop
CenterAll(objs, ds, cz) ==
    [i \in DOMAIN objs |->
        IF i \notin CenterTargets(ds) THEN objs[i]
        ELSE IF objs[i].type # "MESH" THEN objs[i]
        ELSE IF Len(objs[i].verts) = 0 THEN objs[i]
        ELSE [objs[i] EXCEPT !.verts = CenterMesh(objs[i].verts, cz)]]

\* _get_running_export_op(): always None
GetRunningExportOp == None

\* mutant: the saved selection is not selected again
RestoreTargetsNone(saved) == {}

\* the objects the restore loop selects again: for obj in orig_selected
RestoreTargets(saved) == saved

-----------------------------------------------------------------------------
(* The operator.  pc: "idle" (no dialog), "dialog" (the export dialog is    *)
(* open), the positions of execute's loop, "returned" (execute has          *)
(* returned and the host holds its result) and "raised" (execute was left   *)
(* by an exception of the host exporter).                                   *)

Waiting == pc \in {"idle", "dialog"}

loopVars == <<queue, cur, dupes, dupe_root, orig_selected, orig_active, exported>>

runVars == <<result, report, written, exportLog, pre>>

optVars == <<export_children, center_z, dirExists>>

NoRun == [objects |-> << >>, active |-> None]

\* invoke(): lines 47-55
Invoke ==
    /\ pc = "idle"
    /\ mesh_entries' = FreshEntries(objects)
    /\ pc' = "dialog"
    /\ UNCHANGED <<objects, active, optVars, loopVars, runVars>>

\* the file selector super().invoke() opened is closed without confirming
Cancel ==
    /\ pc = "dialog"
    /\ pc' = "idle"
    /\ UNCHANGED <<objects, active, mesh_entries, optVars, loopVars, runVars>>

\* draw(): the checkbox of one entry
ToggleEntry ==
    /\ pc = "dialog"
    /\ \E k \in 1..Len(mesh_entries) :
          mesh_entries' = [mesh_entries EXCEPT ![k].export = ~mesh_entries[k].export]
    /\ UNCHANGED <<objects, active, optVars, pc, loopVars, runVars>>

\* draw(): the "Include Children" checkbox
ToggleChildren ==
    /\ pc = "dialog"
    /\ export_children' = ~export_children
    /\ UNCHANGED <<objects, active, mesh_entries, center_z, dirExists, pc, loopVars, runVars>>

\* draw(): the "Center Z Axis" checkbox
ToggleCenterZ ==
    /\ pc = "dialog"
    /\ center_z' = ~center_z
    /\ UNCHANGED <<objects, active, mesh_entries, export_children, dirExists, pc,
                   loopVars, runVars>>

\* the file picker: the directory of self.filepath exists or not
PickPath ==
    /\ pc = "dialog"
    /\ dirExists' = ~dirExists
    /\ UNCHANGED <<objects, active, mesh_entries, export_children, center_z, pc,
                   loopVars, runVars>>

\* BATCH_FBX_SELECT_ALL.execute / BATCH_FBX_SELECT_NONE.execute with flag
\* True / False: op is None, so no entry changes
SetAllEntries(flag) ==
    IF GetRunningExportOp # None
    THEN [k \in 1..Len(mesh_entries) |-> [mesh_entries[k] EXCEPT !.export = flag]]
    ELSE mesh_entries

SelectAll ==
    /\ pc = "dialog"
    /\ mesh_entries' = SetAllEntries(TRUE)
    /\ UNCHANGED <<objects, active, optVars, pc, loopVars, runVars>>

SelectNone ==
    /\ pc = "dialog"
    /\ mesh_entries' = SetAllEntries(FALSE)
    /\ UNCHANGED <<objects, active, optVars, pc, loopVars, runVars>>

\* the user hides or shows an object in the host while no command runs:
\* what obj.visible_get() answers changes
SetVisible ==
    /\ Waiting
    /\ \E i \in DOMAIN objects :
          objects' = [objects EXCEPT ![i].visible = ~objects[i].visible]
    /\ UNCHANGED <<active, mesh_entries, optVars, pc, loopVars, runVars>>

\* mutant: the directory test always passes
IsDirAlways == TRUE

\* os.path.isdir(export_dir)
IsDir == dirExists

\* execute(), lines 83-86: the directory does not exist
ExecuteNoDir ==
    /\ Waiting
    /\ ~IsDir
    /\ pre' = [objects |-> objects, active |-> active]
    /\ report' = "ERROR"
    /\ result' = "CANCELLED"
    /\ pc' = "returned"
    /\ written' = {}
    /\ exportLog' = << >>
    /\ UNCHANGED <<objects, active, mesh_entries, optVars, loopVars>>

\* execute(), lines 88-100: nothing to export
ExecuteNoMeshes ==
    /\ Waiting
    /\ IsDir
    /\ MeshObjects(objects, mesh_entries) = << >>
    /\ pre' = [objects |-> objects, active |-> active]
    /\ report' = "WARNING"
    /\ result' = "CANCELLED"
    /\ pc' = "returned"
    /\ written' = {}
    /\ exportLog' = << >>
    /\ UNCHANGED <<objects, active, mesh_entries, optVars, loopVars>>

\* execute(), lines 88-106: the loop is entered
ExecuteBegin ==
    /\ Waiting
    /\ IsDir
    /\ MeshObjects(objects, mesh_entries) # << >>
    /\ pre' = [objects |-> objects, active |-> active]
    /\ queue' = MeshObjects(objects, mesh_entries)
    /\ orig_selected' = Selected(objects)
    /\ orig_active' = active
    /\ exported' = 0
    /\ written' = {}
    /\ exportLog' = << >>
    /\ report' = "NONE"
    /\ result' = "RUNNING"
    /\ pc' = "duplicate"
    /\ UNCHANGED <<objects, active, mesh_entries, optVars, cur, dupes, dupe_root>>

\* lines 108-121: collect, select, duplicate
Duplicate ==
    /\ pc = "duplicate"
    /\ LET obj == Head(queue)
           toExport == ObjectsToExport(objects, obj, export_children)
           selected == SelectOnly(objects, toExport)
           copied == HostDuplicate(selected)
       IN  /\ cur' = obj
           /\ objects' = copied
           /\ active' = HostDuplicateActive(selected, obj)
           /\ dupes' = Selected(copied)
           /\ dupe_root' = HostDuplicateActive(selected, obj)
    /\ pc' = "apply"
    /\ UNCHANGED <<mesh_entries, optVars, queue, orig_selected, orig_active, exported,
                   runVars>>

\* lines 123-129: bake the location into the duplicates
Apply ==
    /\ pc = "apply"
    /\ objects' = HostTransformApply(SelectOnly(objects, dupes))
    /\ active' = dupe_root
    /\ pc' = "center"
    /\ UNCHANGED <<mesh_entries, optVars, loopVars, runVars>>

\* lines 131-147: center the duplicates' vertices
Center ==
    /\ pc = "center"
    /\ objects' = CenterAll(objects, dupes, center_z)
    /\ pc' = "export"
    /\ UNCHANGED <<active, mesh_entries, optVars, loopVars, runVars>>

\* lines 155-157
FilePath(objs, obj) == SafeFilename(objs[obj].name) \o FbxExt

\* lines 149-173: the host exporter writes the file
ExportOk ==
    /\ pc = "export"
    /\ objects' = SelectOnly(objects, dupes)
    /\ active' = dupe_root
    /\ written' = written \cup {FilePath(objects, cur)}
    /\ exportLog' = Append(exportLog,
                           ExportCall(SelectOnly(objects, dupes), FilePath(objects, cur)))
    /\ exported' = exported + 1
    /\ pc' = "delete"
    /\ UNCHANGED <<mesh_entries, optVars, queue, cur, dupes, dupe_root, orig_selected,
                   orig_active, result, report, pre>>

\* lines 149-171: the host exporter fails; bpy.ops raises, nothing catches it,
\* and execute is left at line 160
ExportRaises ==
    /\ pc = "export"
    /\ objects' = SelectOnly(objects, dupes)
    /\ active' = dupe_root
    /\ exportLog' = Append(exportLog,
                           ExportCall(SelectOnly(objects, dupes), FilePath(objects, cur)))
    /\ result' = "EXCEPTION"
    /\ pc' = "raised"
    /\ UNCHANGED <<mesh_entries, optVars, loopVars, report, written, pre>>

\* lines 175-179: delete the duplicates, then the next object or the end of the loop
Delete ==
    /\ pc = "delete"
    /\ objects' = HostDelete(SelectOnly(objects, dupes))
    /\ active' = HostDeleteActive(SelectOnly(objects, dupes), active)
    /\ queue' = Tail(queue)
    /\ pc' = IF Tail(queue) = << >> THEN "restore" ELSE "duplicate"
    /\ UNCHANGED <<mesh_entries, optVars, cur, dupes, dupe_root, orig_selected,
                   orig_active, exported, runVars>>

\* lines 181-188: restore the selection, report, return
Restore ==
    /\ pc = "restore"
    /\ objects' = SelectOnly(objects, RestoreTargets(orig_selected))
    /\ active' = orig_active
    /\ report' = "INFO"
    /\ result' = "FINISHED"
    /\ pc' = "returned"
    /\ UNCHANGED <<mesh_entries, optVars, loopVars, written, exportLog, pre>>

\* the host takes the returned value; the command is over
Dismiss ==
    /\ pc = "returned"
    /\ pc' = "idle"
    /\ result' = "NONE"
    /\ report' = "NONE"
    /\ written' = {}
    /\ exportLog' = << >>
    /\ pre' = NoRun
    /\ queue' = << >>
    /\ cur' = None
    /\ dupes' = {}
    /\ dupe_root' = None
    /\ orig_selected' = {}
    /\ orig_active' = None
    /\ exported' = 0
    /\ UNCHANGED <<objects, active, mesh_entries, optVars>>

Init ==
    /\ \E s \in InitialSelections :
          /\ objects = SceneWith(s)
          /\ active = s.act
    /\ mesh_entries = << >>
    /\ export_children = TRUE
    /\ center_z = FALSE
    /\ dirExists = TRUE
    /\ pc = "idle"
    /\ queue = << >>
    /\ cur = None
    /\ dupes = {}
    /\ dupe_root = None
    /\ orig_selected = {}
    /\ orig_active = None
    /\ exported = 0
    /\ result = "NONE"
    /\ report = "NONE"
    /\ written = {}
    /\ exportLog = << >>
    /\ pre = NoRun
    /\ name = << >>
    /\ safe = << >>
    /\ npc = "off"

Next ==
    \/ (Invoke /\ UNCHANGED nameVars)
    \/ (Cancel /\ UNCHANGED nameVars)
    \/ (ToggleEntry /\ UNCHANGED nameVars)
    \/ (ToggleChildren /\ UNCHANGED nameVars)
    \/ (ToggleCenterZ /\ UNCHANGED nameVars)
    \/ (PickPath /\ UNCHANGED nameVars)
    \/ (SelectAll /\ UNCHANGED nameVars)
    \/ (SelectNone /\ UNCHANGED nameVars)
    \/ (SetVisible /\ UNCHANGED nameVars)
    \/ (ExecuteNoDir /\ UNCHANGED nameVars)
    \/ (ExecuteNoMeshes /\ UNCHANGED nameVars)
    \/ (ExecuteBegin /\ UNCHANGED nameVars)
    \/ (Duplicate /\ UNCHANGED nameVars)
    \/ (Apply /\ UNCHANGED nameVars)
    \/ (Center /\ UNCHANGED nameVars)
    \/ (ExportOk /\ UNCHANGED nameVars)
    \/ (ExportRaises /\ UNCHANGED nameVars)
    \/ (Delete /\ UNCHANGED nameVars)
    \/ (Restore /\ UNCHANGED nameVars)
    \/ (Dismiss /\ UNCHANGED nameVars)

Spec == Init /\ [][Next]_vars

-----------------------------------------------------------------------------
(* _safe_filename on its own: every name of at most MaxLen characters over  *)
(* Alphabet, and the name Foo/Bar*1, sanitised once and then once more.     *)

\* a 1 B, the four characters kept besides letters and digits, / and *
Alphabet == {97, 49, 66, Space, Hyphen, Underscore, Period, 47, 42}

\* "Foo/Bar*1"
FooBar1 == <<70, 111, 111, 47, 66, 97, 114, 42, 49>>

Names == UNION {[1..n -> Alphabet] : n \in 0..MaxLen} \cup {FooBar1}

InitName ==
    /\ objects = SceneWith([sel |-> {}, act |-> None])
    /\ active = None
    /\ mesh_entries = << >>
    /\ export_children = TRUE
    /\ center_z = FALSE
    /\ dirExists = TRUE
    /\ pc = "idle"
    /\ queue = << >>
    /\ cur = None
    /\ dupes = {}
    /\ dupe_root = None
    /\ orig_selected = {}
    /\ orig_active = None
    /\ exported = 0
    /\ result = "NONE"
    /\ report = "NONE"
    /\ written = {}
    /\ exportLog = << >>
    /\ pre = NoRun
    /\ name \in Names
    /\ safe = << >>
    /\ npc = "start"

\* safe_name = self._safe_filename(obj.name)
Sanitize ==
    /\ npc = "start"
    /\ safe' = SafeFilename(name)
    /\ npc' = "once"
    /\ UNCHANGED name

\* the result is sanitised again
Resanitize ==
    /\ npc = "once"
    /\ name' = safe
    /\ safe' = SafeFilename(safe)
    /\ npc' = "twice"

NextName ==
    \/ (Sanitize /\ UNCHANGED opVars)
    \/ (Resanitize /\ UNCHANGED opVars)

SpecName == InitName /\ [][NextName]_vars

-----------------------------------------------------------------------------
(* The claims.                                                              *)

Running == pc \notin {"idle", "dialog"}

\* an object without its selection flag
Unselected(o) == [o EXCEPT !.select = FALSE]

\* C1: while execute runs and after it ended, every object that was in the
\* scene when it started is still there with the name, type, parent, location,
\* rotation, scale, vertices and visibility it had, and once execute has
\* returned the scene holds exactly those objects.
C1_OriginalsNeverMutated ==
    Running =>
        /\ \A i \in DOMAIN pre.objects :
              /\ i \in DOMAIN objects
              /\ Unselected(objects[i]) = Unselected(pre.objects[i])
        /\ (pc = "returned" => DOMAIN objects = DOMAIN pre.objects)

\* C1 witness: a run with both options on that exported all three meshes has returned
C1_Witness ==
    /\ pc = "returned"
    /\ result = "FINISHED"
    /\ exported = 3
    /\ export_children
    /\ center_z

\* C2: when execute has returned, the selected objects and the active object
\* are those of the moment it started.
C2_SelectionRestored ==
    pc = "returned" =>
        /\ Selected(objects) = Selected(pre.objects)
        /\ active = pre.active

\* C2 witness: a run that exported two or more objects has returned, and the
\* scene had a selection and an unselected active object before it
C2_Witness ==
    /\ pc = "returned"
    /\ result = "FINISHED"
    /\ exported >= 2
    /\ Selected(pre.objects) = {1, 3}
    /\ pre.active = 4

\* the objects an approved entry names that are visible meshes
Included(objs, entries) ==
    {i \in DOMAIN objs :
        /\ objs[i].type = "MESH"
        /\ objs[i].visible
        /\ \E k \in 1..Len(entries) :
              entries[k].export /\ entries[k].obj_name = objs[i].name}

\* C3: a run that finished wrote as many distinct files as there were
\* included objects.
C3_OneFilePerIncluded ==
    (pc = "returned" /\ result = "FINISHED") =>
        Cardinality(written) = Cardinality(Included(pre.objects, mesh_entries))

\* C4: a run started with a missing directory has returned CANCELLED with an
\* error, has written nothing, has called the exporter never, and has left the
\* objects, the selection and the active object as they were; it is never
\* inside the loop.
C4_MissingDirectory ==
    (Running /\ ~dirExists) =>
        /\ pc = "returned"
        /\ result = "CANCELLED"
        /\ report = "ERROR"
        /\ written = {}
        /\ exportLog = << >>
        /\ objects = pre.objects
        /\ active = pre.active

\* C4 witness: such a run has returned although an entry was approved
C4_Witness ==
    /\ pc = "returned"
    /\ ~dirExists
    /\ Included(pre.objects, mesh_entries) # {}

\* C4 witness of the other case: no entry at all
C4_WitnessNoEntries ==
    /\ pc = "returned"
    /\ ~dirExists
    /\ mesh_entries = << >>

\* C5: a run started with an existing directory and no approved entry naming
\* a visible mesh has returned CANCELLED with a warning, has written nothing,
\* has called the exporter never, and has left the objects, the selection and
\* the active object as they were.
C5_NothingToExport ==
    (Running /\ dirExists /\ Included(pre.objects, mesh_entries) = {}) =>
        /\ pc = "returned"
        /\ result = "CANCELLED"
        /\ report = "WARNING"
        /\ written = {}
        /\ exportLog = << >>
        /\ objects = pre.objects
        /\ active = pre.active

\* C5 witness: such a run has returned, and the one approved entry names a
\* mesh that is hidden by now
C5_Witness ==
    /\ pc = "returned"
    /\ dirExists
    /\ Included(pre.objects, mesh_entries) = {}
    /\ \E k \in 1..Len(mesh_entries) : mesh_entries[k].export
    /\ Selected(objects) # {}

\* C6: when execute has ended, by returning or by the exporter's failure, the
\* scene holds no duplicate, and none exists when an iteration starts.
C6_NoDuplicateRemains ==
    pc \in {"returned", "raised", "duplicate"} => DOMAIN objects = DOMAIN pre.objects

\* C7: the centering step leaves every duplicated mesh with one or more
\* vertices with X sum zero and Y sum zero (so mean zero); with center_z the Z
\* sum is zero too, without it every vertex keeps its Z; a duplicate that is no
\* mesh or has no vertex is left as it was.
C7_CenteredAfter(before, after, ds, cz) ==
    \A d \in ds :
        IF before[d].type = "MESH" /\ Len(before[d].verts) >= 1
        THEN /\ Len(after[d].verts) = Len(before[d].verts)
             /\ SumAxis(after[d].verts, "x").n = 0
             /\ SumAxis(after[d].verts, "y").n = 0
             /\ cz => SumAxis(after[d].verts, "z").n = 0
             /\ ~cz => \A k \in 1..Len(before[d].verts) :
                          after[d].verts[k].z = before[d].verts[k].z
        ELSE after[d] = before[d]

C7_Centering ==
    [][pc = "center" => C7_CenteredAfter(objects, objects', dupes, center_z)]_vars

\* C7 witness: after the centering step without center_z, the duplicate of the
\* three-vertex mesh has a vertex at a non-integer X, its Z still the baked
\* one, next to a duplicated empty
C7_Witness ==
    /\ pc = "export"
    /\ ~center_z
    /\ DupId(1) \in dupes
    /\ DupId(3) \in dupes
    /\ \E k \in 1..3 : objects[DupId(1)].verts[k].x.d = 3
    /\ objects[DupId(1)].verts[2].z = RatInt(5)

\* C7 witness with center_z
C7_WitnessZ ==
    /\ pc = "export"
    /\ center_z
    /\ DupId(1) \in dupes
    /\ objects[DupId(1)].verts[2].z.d = 3

Kept(c) == IsAlnum(c) \/ c \in {32, 45, 95, 46}

\* "Foo_Bar_1.fbx"
FooBar1File == <<70, 111, 111, 95, 66, 97, 114, 95, 49, 46, 102, 98, 120>>

\* C8: the sanitised name is as long as the name, has every letter, digit,
\* space, hyphen, underscore and period of the name in its place and an
\* underscore in every other place; sanitising it again changes nothing; and
\* Foo/Bar*1 gives Foo_Bar_1.fbx.
C8_SafeFilename ==
    /\ npc = "once" =>
          /\ Len(safe) = Len(name)
          /\ \A i \in 1..Len(name) : safe[i] = IF Kept(name[i]) THEN name[i] ELSE 95
          /\ (name = FooBar1 => safe \o FbxExt = FooBar1File)
    /\ npc = "twice" => safe = name

\* C8 witness: a name with a replaced and a kept special character has been
\* sanitised twice
C8_Witness ==
    /\ npc = "twice"
    /\ Len(name) = 3
    /\ name[1] = 95
    /\ name[2] = 46

\* C8 witness of the example
C8_WitnessExample ==
    /\ npc = "once"
    /\ name = FooBar1

\* C9: right after invoke the list has one entry per visible mesh of the
\* scene, in strictly increasing order of name, each with export = TRUE.
C9_FreshAfter(entries, objs) ==
    /\ {entries[k].obj_name : k \in 1..Len(entries)} =
          {objs[i].name : i \in {j \in DOMAIN objs : objs[j].type = "MESH" /\ objs[j].visible}}
    /\ \A k \in 1..Len(entries) : entries[k].export
    /\ \A k \in 1..Len(entries) : \A l \in 1..Len(entries) :
          k < l => LexLess(entries[k].obj_name, entries[l].obj_name)

C9_InvokePopulatesFresh ==
    [][(pc = "idle" /\ pc' = "dialog") => C9_FreshAfter(mesh_entries', objects')]_vars

\* C9 witness: the dialog is open on a scene with a hidden mesh, two entries listed
C9_Witness ==
    /\ pc = "dialog"
    /\ Len(mesh_entries) = 2
    /\ \A k \in 1..2 : mesh_entries[k].export
    /\ \E i \in DOMAIN objects : objects[i].type = "MESH" /\ ~objects[i].visible

\* the parents of i, upwards
RECURSIVE Ancestors(_, _)
Ancestors(objs, i) ==
    IF objs[i].parent = None THEN {}
    ELSE {objs[i].parent} \cup Ancestors(objs, objs[i].parent)

\* the iteration's object and, with include-children, everything below it
Collected(objs, o, children) ==
    {o} \cup (IF children THEN {i \in DOMAIN objs : o \in Ancestors(objs, i)} ELSE {})

\* C10, at an export call: right after it (whether it wrote the file or
\* raised), the objects it was handed are the duplicates of the collected
\* objects and nothing else.
C10_ExportedSet ==
    pc \in {"delete", "raised"} =>
        exportLog[Len(exportLog)].objs =
            {DupId(i) : i \in Collected(pre.objects, cur, export_children)}

\* C10, the order of an iteration: duplicate adds the duplicates of the
\* collected objects; then the bake zeroes their locations; then centering;
\* then the export call; then delete leaves the scene without them.
C10_Step ==
    /\ pc = "duplicate" =>
          /\ pc' = "apply"
          /\ DOMAIN objects' = DOMAIN objects \cup
                {DupId(i) : i \in Collected(pre.objects, cur', export_children)}
    /\ pc = "apply" =>
          /\ pc' = "center"
          /\ \A d \in dupes : objects'[d].loc = [x |-> 0, y |-> 0, z |-> 0]
    /\ pc = "center" => pc' = "export"
    /\ pc = "export" =>
          /\ pc' \in {"delete", "raised"}
          /\ Len(exportLog') = Len(exportLog) + 1
    /\ pc = "delete" =>
          /\ pc' \in {"duplicate", "restore"}
          /\ DOMAIN objects' = DOMAIN pre.objects

C10_IterationOrder == []C10_ExportedSet /\ [][C10_Step]_vars

\* C10 witness: the export call of the iteration of "a/b" with include-children
\* was handed three duplicates, after an earlier iteration
C10_Witness ==
    /\ pc = "delete"
    /\ cur = 1
    /\ export_children
    /\ Len(exportLog) = 2
    /\ exportLog[2].objs = {DupId(1), DupId(2), DupId(3)}

====
